---------------------------- MODULE Spec2Model ----------------------------
(***************************************************************************)
(* MongoDBDistributedCache (src/unnamed/part_001, lines 76-179): an        *)
(* IDistributedCache whose entries are documents of one MongoDB            *)
(* collection.  The collection is a set of CacheEntry documents; the       *)
(* clock is DateTime.UtcNow.                                               *)
(*                                                                         *)
(* Two specifications share the operators that model the store calls:      *)
(*   Spec      one call at a time, each handler run from entry to return;  *)
(*   ConcSpec  several callers, one step per store round trip or clock     *)
(*             reading, interleaved freely.                                *)
(***************************************************************************)
EXTENDS Integers, Sequences, FiniteSets, TLC

VARIABLES
    cacheCollection,  \* _cacheCollection: the set of CacheEntry documents
    clock,            \* DateTime.UtcNow
    lastOp,           \* Spec: per key, the last completed call and what it returned
    loc,              \* ConcSpec: per caller, the position and locals of its call
    store,            \* FaultSpec: whether the MongoDB server can be reached
    page              \* PageSpec: the slide page the navigation script runs in

vars == <<cacheCollection, clock, lastOp, loc, store, page>>

---------------------------------------------------------------------------
(* Bounds of the model *)

MaxTime == 2
TickMinutes == 15
MaxByte == 1
AbsLocal == 4
AbsOffset == 1
MaxPathLen == 4

(* Program.cs: options.IdleTimeout = TimeSpan.FromMinutes(20) *)
IdleTimeout == 20

Keys == {"session:abc", "session:xyz"}
Callers == {"c1", "c2"}
\* FaultSpec follows one caller.
FaultCallers == {"c1"}

\* ConcSpec: the callers contend for one key.
ConcKeys == {"session:abc"}
FaultKeys == Keys

---------------------------------------------------------------------------
(* Values *)

\* A nullable T is <<>> (null) or <<x>> (a value x).
None == <<>>
Some(x) == <<x>>
HasValue(n) == n # None
ValueOf(n) == n[1]

\* byte[]: the empty array and the one-byte arrays.
Values == {<<>>} \cup {<<b>> : b \in 1..MaxByte}

\* DateTimeOffset: a local date-time and its offset from UTC.
DateTimeOffsets == {[dt |-> AbsLocal, off |-> AbsOffset]}

\* Mutant: the local date-time taken for the UTC one.
UtcDateTime_Local(d) == d.dt

\* DateTimeOffset.UtcDateTime
UtcDateTime(d) == d.dt - d.off

\* DistributedCacheEntryOptions, as far as Set reads it.
Options ==
    [AbsoluteExpiration : {None} \cup {Some(d) : d \in DateTimeOffsets},
     SlidingExpiration  : {None, Some(IdleTimeout)}]

NoOptions == [AbsoluteExpiration |-> None, SlidingExpiration |-> None]

---------------------------------------------------------------------------
(* Store calls *)

\* Mutant: the filter on Id left out.
Find_NoFilter(coll, key) ==
    IF coll # {} THEN Some(CHOOSE e \in coll : TRUE) ELSE None

\* _cacheCollection.Find(x => x.Id == key).FirstOrDefault()
Find(coll, key) ==
    IF \E e \in coll : e.Id = key
    THEN Some(CHOOSE e \in coll : e.Id = key)
    ELSE None

\* Mutant: a replace that is not an upsert is never persisted.
ReplaceOne_NotPersisted(coll, key, entry, upsert) ==
    IF upsert
    THEN {e \in coll : e.Id # key} \cup {entry}
    ELSE coll

\* Mutant: an existing document gets the new Value and LastAccessTime only.
ReplaceOne_PartialUpdate(coll, key, entry, upsert) ==
    IF \E e \in coll : e.Id = key
    THEN {IF e.Id = key
          THEN [e EXCEPT !.Value = entry.Value, !.LastAccessTime = entry.LastAccessTime]
          ELSE e : e \in coll}
    ELSE IF upsert THEN coll \cup {entry} ELSE coll

\* Mutant: an upsert inserts the entry and leaves the old document in place.
ReplaceOne_Insert(coll, key, entry, upsert) ==
    IF upsert THEN coll \cup {entry}
    ELSE IF \E e \in coll : e.Id = key
    THEN (coll \ {CHOOSE e \in coll : e.Id = key}) \cup {entry}
    ELSE coll

\* Mutant: every replace is an upsert.
ReplaceOne_AlwaysUpsert(coll, key, entry, upsert) ==
    {e \in coll : e.Id # key} \cup {entry}

\* _cacheCollection.ReplaceOne(x => x.Id == key, entry, new ReplaceOptions { IsUpsert = upsert })
ReplaceOne(coll, key, entry, upsert) ==
    IF \E e \in coll : e.Id = key
    THEN (coll \ {CHOOSE e \in coll : e.Id = key}) \cup {entry}
    ELSE IF upsert THEN coll \cup {entry} ELSE coll

\* Mutant: the filter on Id left out, the first document found is deleted.
DeleteOne_NoFilter(coll, key) ==
    IF coll # {} THEN coll \ {CHOOSE e \in coll : TRUE} ELSE coll

\* _cacheCollection.DeleteOne(x => x.Id == key)
DeleteOne(coll, key) ==
    IF \E e \in coll : e.Id = key
    THEN coll \ {CHOOSE e \in coll : e.Id = key}
    ELSE coll

\* Mutant: the value is not copied into the new entry.
NewEntry_NoValue(key, value, options, now) ==
    [Id                 |-> key,
     Value              |-> <<>>,
     AbsoluteExpiration |-> IF HasValue(options.AbsoluteExpiration)
                            THEN Some(UtcDateTime(ValueOf(options.AbsoluteExpiration)))
                            ELSE None,
     SlidingExpiration  |-> options.SlidingExpiration,
     LastAccessTime     |-> now]

\* new CacheEntry { Id, Value, AbsoluteExpiration, SlidingExpiration, LastAccessTime }
NewEntry(key, value, options, now) ==
    [Id                 |-> key,
     Value              |-> value,
     AbsoluteExpiration |-> IF HasValue(options.AbsoluteExpiration)
                            THEN Some(UtcDateTime(ValueOf(options.AbsoluteExpiration)))
                            ELSE None,
     SlidingExpiration  |-> options.SlidingExpiration,
     LastAccessTime     |-> now]

\* Mutant: the last-access time is left as read.
Touch_Stale(entry, now) == entry

\* entry.LastAccessTime = DateTime.UtcNow
Touch(entry, now) == [entry EXCEPT !.LastAccessTime = now]

\* Mutant: every entry found is touched.
IsSliding_Always(found) == HasValue(found)

\* if (entry.SlidingExpiration.HasValue)
IsSliding(found) == HasValue(found) /\ HasValue(ValueOf(found).SlidingExpiration)

\* The documents of a collection that carry a given Id.
StoredIn(coll, key) == {e \in coll : e.Id = key}
Stored(key) == StoredIn(cacheCollection, key)

---------------------------------------------------------------------------
(* Initial state: an empty collection, no call made. *)

\* The slide page of the navigation script (sidebar.js): no document is loaded.
BlankPage ==
    [loaded      |-> FALSE,
     path        |-> <<>>,
     hasBoxes    |-> FALSE,
     active      |-> {},
     scrolledTo  |-> {},
     classes     |-> [b \in {"hofontsvgbx", "hocmssvgbx"} |-> {}],
     listeners   |-> {},
     lastClick   |-> [b \in {"hofontsvgbx", "hocmssvgbx"} |-> "none"],
     clicked     |-> "none",
     n           |-> 0]

NoOp == [op |-> "None", value |-> None, options |-> NoOptions, result |-> None,
         wrote |-> FALSE, n |-> 0]
Idle == [pc |-> "idle", op |-> "None", key |-> "", entry |-> None, result |-> None,
         token |-> "none"]

Init ==
    /\ cacheCollection = {}
    /\ clock = 0
    /\ lastOp = [k \in Keys |-> NoOp]
    /\ loc = [c \in Callers |-> Idle]
    /\ store = "up"
    /\ page = BlankPage

\* Time passes: the clock counts minutes and advances MaxTime times.
Tick ==
    /\ clock < MaxTime * TickMinutes
    /\ clock' = clock + TickMinutes
    /\ UNCHANGED <<page, store, cacheCollection, lastOp, loc>>

---------------------------------------------------------------------------
(* Spec: the handlers, one call at a time *)

\* What a call on key k leaves behind: the call, its arguments, what it returned,
\* whether it issued a write (ReplaceOne, DeleteOne) to the store, and the parity
\* of the number of calls made on k so far.
Completed(k, name, value, options, result, wrote) ==
    lastOp' = [lastOp EXCEPT ![k] =
        [op |-> name, value |-> value, options |-> options, result |-> result,
         wrote |-> wrote, n |-> 1 - lastOp[k].n]]

\* This step is a call on key k.
Called(k) == lastOp'[k] # lastOp[k]

\* Mutant: an entry whose absolute expiration is past is deleted and reported
\* as not found.
Get_ExpiryChecked(k) ==
    LET found == Find(cacheCollection, k)
        past == /\ HasValue(found)
                /\ HasValue(ValueOf(found).AbsoluteExpiration)
                /\ ValueOf(ValueOf(found).AbsoluteExpiration) < clock
    IN
    /\ IF ~HasValue(found) \/ past
       THEN /\ cacheCollection' = DeleteOne(cacheCollection, k)
            /\ Completed(k, "Get", None, NoOptions, None, past)
       ELSE IF IsSliding(found)
       THEN /\ cacheCollection' =
                   ReplaceOne(cacheCollection, k, Touch(ValueOf(found), clock), FALSE)
            /\ Completed(k, "Get", None, NoOptions, Some(ValueOf(found).Value), TRUE)
       ELSE /\ UNCHANGED cacheCollection
            /\ Completed(k, "Get", None, NoOptions, Some(ValueOf(found).Value), FALSE)
    /\ UNCHANGED <<page, store, clock, loc>>

\* Mutant: an entry with an empty Value is reported as not found.
Get_EmptyIsNull(k) ==
    LET found == Find(cacheCollection, k)
        value == IF HasValue(found) /\ ValueOf(found).Value # <<>>
                 THEN Some(ValueOf(found).Value)
                 ELSE None
    IN
    /\ IF IsSliding(found)
       THEN /\ cacheCollection' =
                   ReplaceOne(cacheCollection, k, Touch(ValueOf(found), clock), FALSE)
            /\ Completed(k, "Get", None, NoOptions, value, TRUE)
       ELSE /\ UNCHANGED cacheCollection
            /\ Completed(k, "Get", None, NoOptions, value, FALSE)
    /\ UNCHANGED <<page, store, clock, loc>>

\* public byte[] Get(string key)
Get(k) ==
    LET found == Find(cacheCollection, k) IN
    /\ IF ~HasValue(found)
       THEN /\ UNCHANGED cacheCollection
            /\ Completed(k, "Get", None, NoOptions, None, FALSE)
       ELSE IF IsSliding(found)
       THEN /\ cacheCollection' =
                   ReplaceOne(cacheCollection, k, Touch(ValueOf(found), clock), FALSE)
            /\ Completed(k, "Get", None, NoOptions, Some(ValueOf(found).Value), TRUE)
       ELSE /\ UNCHANGED cacheCollection
            /\ Completed(k, "Get", None, NoOptions, Some(ValueOf(found).Value), FALSE)
    /\ UNCHANGED <<page, store, clock, loc>>

\* public void Refresh(string key)
Refresh(k) ==
    LET found == Find(cacheCollection, k) IN
    /\ IF IsSliding(found)
       THEN /\ cacheCollection' =
                   ReplaceOne(cacheCollection, k, Touch(ValueOf(found), clock), FALSE)
            /\ Completed(k, "Refresh", None, NoOptions, None, TRUE)
       ELSE /\ UNCHANGED cacheCollection
            /\ Completed(k, "Refresh", None, NoOptions, None, FALSE)
    /\ UNCHANGED <<page, store, clock, loc>>

\* public void Remove(string key)
Remove(k) ==
    /\ cacheCollection' = DeleteOne(cacheCollection, k)
    /\ Completed(k, "Remove", None, NoOptions, None, TRUE)
    /\ UNCHANGED <<page, store, clock, loc>>

\* public void Set(string key, byte[] value, DistributedCacheEntryOptions options)
Set(k, v, o) ==
    /\ cacheCollection' = ReplaceOne(cacheCollection, k, NewEntry(k, v, o, clock), TRUE)
    /\ Completed(k, "Set", Some(v), o, None, TRUE)
    /\ UNCHANGED <<page, store, clock, loc>>

(* The asynchronous variants, called with a token that is never cancelled.  *)
(* To its caller a variant's call is a call of the same operation.          *)

\* Mutant: the asynchronous Get returns the value without the touch write.
GetAsync_NoTouch(k) ==
    LET found == Find(cacheCollection, k) IN
    /\ UNCHANGED cacheCollection
    /\ IF ~HasValue(found)
       THEN Completed(k, "Get", None, NoOptions, None, FALSE)
       ELSE Completed(k, "Get", None, NoOptions, Some(ValueOf(found).Value), FALSE)
    /\ UNCHANGED <<page, store, clock, loc>>

\* public async Task<byte[]?> GetAsync(string key, CancellationToken token = default)
GetAsync(k) ==
    LET found == Find(cacheCollection, k) IN
    /\ IF ~HasValue(found)
       THEN /\ UNCHANGED cacheCollection
            /\ Completed(k, "Get", None, NoOptions, None, FALSE)
       ELSE IF IsSliding(found)
       THEN /\ cacheCollection' =
                   ReplaceOne(cacheCollection, k, Touch(ValueOf(found), clock), FALSE)
            /\ Completed(k, "Get", None, NoOptions, Some(ValueOf(found).Value), TRUE)
       ELSE /\ UNCHANGED cacheCollection
            /\ Completed(k, "Get", None, NoOptions, Some(ValueOf(found).Value), FALSE)
    /\ UNCHANGED <<page, store, clock, loc>>

\* public async Task RefreshAsync(string key, CancellationToken token = default)
RefreshAsync(k) ==
    LET found == Find(cacheCollection, k) IN
    /\ IF IsSliding(found)
       THEN /\ cacheCollection' =
                   ReplaceOne(cacheCollection, k, Touch(ValueOf(found), clock), FALSE)
            /\ Completed(k, "Refresh", None, NoOptions, None, TRUE)
       ELSE /\ UNCHANGED cacheCollection
            /\ Completed(k, "Refresh", None, NoOptions, None, FALSE)
    /\ UNCHANGED <<page, store, clock, loc>>

\* public async Task RemoveAsync(string key, CancellationToken token = default)
RemoveAsync(k) ==
    /\ cacheCollection' = DeleteOne(cacheCollection, k)
    /\ Completed(k, "Remove", None, NoOptions, None, TRUE)
    /\ UNCHANGED <<page, store, clock, loc>>

\* public async Task SetAsync(string key, byte[] value,
\*     DistributedCacheEntryOptions options, CancellationToken token = default)
SetAsync(k, v, o) ==
    /\ cacheCollection' = ReplaceOne(cacheCollection, k, NewEntry(k, v, o, clock), TRUE)
    /\ Completed(k, "Set", Some(v), o, None, TRUE)
    /\ UNCHANGED <<page, store, clock, loc>>

Next ==
    \/ Tick
    \/ \E k \in Keys : Get(k)
    \/ \E k \in Keys : GetAsync(k)
    \/ \E k \in Keys : Refresh(k)
    \/ \E k \in Keys : RefreshAsync(k)
    \/ \E k \in Keys : Remove(k)
    \/ \E k \in Keys : RemoveAsync(k)
    \/ \E k \in Keys, v \in Values, o \in Options : Set(k, v, o)
    \/ \E k \in Keys, v \in Values, o \in Options : SetAsync(k, v, o)

Spec == Init /\ [][Next]_vars

---------------------------------------------------------------------------
(* ConcSpec: the same handlers run by several callers, one step per store  *)
(* round trip or clock reading.  A caller's locals are its `entry` and the *)
(* value it is about to return.  The asynchronous variants take the same   *)
(* steps, one per awaited store call.                                      *)

At(c, pc, op) == loc[c].pc = pc /\ loc[c].op = op

Goto(c, pc, op, key, entry, result) ==
    loc' = [loc EXCEPT ![c] =
        [pc |-> pc, op |-> op, key |-> key, entry |-> entry, result |-> result,
         token |-> loc[c].token]]

\* A caller that is in no call may start one.
Begin(c) == loc[c].pc = "idle"

\* Get: var entry = Find(...).FirstOrDefault(); if (entry == null) return null;
\* without sliding expiration: return entry.Value
GetFind(c, k) ==
    LET found == Find(cacheCollection, k) IN
    /\ Begin(c)
    /\ IF ~HasValue(found)
       THEN Goto(c, "done", "Get", k, None, None)
       ELSE IF IsSliding(found)
       THEN Goto(c, "touch", "Get", k, found, None)
       ELSE Goto(c, "done", "Get", k, found, Some(ValueOf(found).Value))
    /\ UNCHANGED <<page, store, cacheCollection, clock, lastOp>>

\* Get: entry.LastAccessTime = DateTime.UtcNow
GetTouch(c) ==
    /\ At(c, "touch", "Get")
    /\ Goto(c, "replace", "Get", loc[c].key,
            Some(Touch(ValueOf(loc[c].entry), clock)), None)
    /\ UNCHANGED <<page, store, cacheCollection, clock, lastOp>>

\* Get: _cacheCollection.ReplaceOne(x => x.Id == key, entry); return entry.Value
GetReplace(c) ==
    /\ At(c, "replace", "Get")
    /\ cacheCollection' =
          ReplaceOne(cacheCollection, loc[c].key, ValueOf(loc[c].entry), FALSE)
    /\ Goto(c, "done", "Get", loc[c].key, loc[c].entry,
            Some(ValueOf(loc[c].entry).Value))
    /\ UNCHANGED <<page, store, clock, lastOp>>

\* Refresh: var entry = Find(...).FirstOrDefault();
\* if (entry != null && entry.SlidingExpiration.HasValue)
RefreshFind(c, k) ==
    LET found == Find(cacheCollection, k) IN
    /\ Begin(c)
    /\ IF IsSliding(found)
       THEN Goto(c, "touch", "Refresh", k, found, None)
       ELSE Goto(c, "done", "Refresh", k, found, None)
    /\ UNCHANGED <<page, store, cacheCollection, clock, lastOp>>

\* Refresh: entry.LastAccessTime = DateTime.UtcNow
RefreshTouch(c) ==
    /\ At(c, "touch", "Refresh")
    /\ Goto(c, "replace", "Refresh", loc[c].key,
            Some(Touch(ValueOf(loc[c].entry), clock)), None)
    /\ UNCHANGED <<page, store, cacheCollection, clock, lastOp>>

\* Refresh: _cacheCollection.ReplaceOne(x => x.Id == key, entry)
RefreshReplace(c) ==
    /\ At(c, "replace", "Refresh")
    /\ cacheCollection' =
          ReplaceOne(cacheCollection, loc[c].key, ValueOf(loc[c].entry), FALSE)
    /\ Goto(c, "done", "Refresh", loc[c].key, loc[c].entry, None)
    /\ UNCHANGED <<page, store, clock, lastOp>>

\* Remove: _cacheCollection.DeleteOne(x => x.Id == key)
RemoveDelete(c, k) ==
    /\ Begin(c)
    /\ cacheCollection' = DeleteOne(cacheCollection, k)
    /\ Goto(c, "done", "Remove", k, None, None)
    /\ UNCHANGED <<page, store, clock, lastOp>>

\* Set: var entry = new CacheEntry { ..., LastAccessTime = DateTime.UtcNow }
SetNew(c, k, v, o) ==
    /\ Begin(c)
    /\ Goto(c, "replace", "Set", k, Some(NewEntry(k, v, o, clock)), None)
    /\ UNCHANGED <<page, store, cacheCollection, clock, lastOp>>

\* Set: _cacheCollection.ReplaceOne(x => x.Id == key, entry, new ReplaceOptions { IsUpsert = true })
SetReplace(c) ==
    /\ At(c, "replace", "Set")
    /\ cacheCollection' =
          ReplaceOne(cacheCollection, loc[c].key, ValueOf(loc[c].entry), TRUE)
    /\ Goto(c, "done", "Set", loc[c].key, loc[c].entry, None)
    /\ UNCHANGED <<page, store, clock, lastOp>>

\* The caller takes the result and is free to call again.
Return(c) ==
    /\ loc[c].pc = "done"
    /\ loc' = [loc EXCEPT ![c] = Idle]
    /\ UNCHANGED <<page, store, cacheCollection, clock, lastOp>>

ConcNext ==
    \/ Tick
    \/ \E c \in Callers, k \in ConcKeys : GetFind(c, k)
    \/ \E c \in Callers : GetTouch(c)
    \/ \E c \in Callers : GetReplace(c)
    \/ \E c \in Callers, k \in ConcKeys : RefreshFind(c, k)
    \/ \E c \in Callers : RefreshTouch(c)
    \/ \E c \in Callers : RefreshReplace(c)
    \/ \E c \in Callers, k \in ConcKeys : RemoveDelete(c, k)
    \/ \E c \in Callers, k \in ConcKeys, v \in Values, o \in Options : SetNew(c, k, v, o)
    \/ \E c \in Callers : SetReplace(c)
    \/ \E c \in Callers : Return(c)

ConcSpec == Init /\ [][ConcNext]_vars

---------------------------------------------------------------------------
(* Callers working on different keys: each caller of the singleton cache keeps
   to a key of its own, and their store calls interleave. *)

KeyOf(c) == IF c = "c1" THEN "session:abc" ELSE "session:xyz"

KeysNext ==
    \/ Tick
    \/ \E c \in Callers : GetFind(c, KeyOf(c))
    \/ \E c \in Callers : GetTouch(c)
    \/ \E c \in Callers : GetReplace(c)
    \/ \E c \in Callers : RefreshFind(c, KeyOf(c))
    \/ \E c \in Callers : RefreshTouch(c)
    \/ \E c \in Callers : RefreshReplace(c)
    \/ \E c \in Callers : RemoveDelete(c, KeyOf(c))
    \/ \E c \in Callers, v \in Values, o \in Options : SetNew(c, KeyOf(c), v, o)
    \/ \E c \in Callers : SetReplace(c)
    \/ \E c \in Callers : Return(c)

KeysSpec == Init /\ [][KeysNext]_vars

---------------------------------------------------------------------------
(* FaultSpec: store calls that throw.  No handler has a try/catch, so an   *)
(* exception of the driver ends the call at the store call that threw it.  *)
(* A store call whose CancellationToken is cancelled throws                *)
(* OperationCanceledException; one that cannot reach the server throws a   *)
(* driver exception; a call that throws has no effect on the collection.   *)

\* The server becomes unreachable, and reachable again.
StoreDown ==
    /\ store = "up"
    /\ store' = "down"
    /\ UNCHANGED <<page, cacheCollection, clock, lastOp, loc>>

StoreUp ==
    /\ store = "down"
    /\ store' = "up"
    /\ UNCHANGED <<page, cacheCollection, clock, lastOp, loc>>

\* The caller is about to call an asynchronous variant with a token of its own
\* (the blocking variants and the default token cannot be cancelled).
StartAsync(c) ==
    /\ Begin(c)
    /\ loc[c].token = "none"
    /\ loc' = [loc EXCEPT ![c].token = "live"]
    /\ UNCHANGED <<page, cacheCollection, clock, lastOp, store>>

\* The token is cancelled, before the call or between two of its store calls.
Cancel(c) ==
    /\ loc[c].token = "live"
    /\ loc[c].pc \in {"idle", "touch", "replace"}
    /\ loc' = [loc EXCEPT ![c].token = "cancelled"]
    /\ UNCHANGED <<page, cacheCollection, clock, lastOp, store>>

\* Mutant: the token is not passed to the store calls.
StoreThrows_NoToken(c) == IF store = "down" THEN "failed" ELSE "none"

\* What a store call of caller c throws: the token is checked first.
StoreThrows(c) ==
    IF loc[c].token = "cancelled" THEN "cancelled"
    ELSE IF store = "down" THEN "failed"
    ELSE "none"

Answers(c) == StoreThrows(c) = "none"

\* Get, Refresh: Find(...).FirstOrDefault() throws
FindThrows(c, op, k) ==
    /\ Begin(c)
    /\ ~Answers(c)
    /\ Goto(c, StoreThrows(c), op, k, None, None)
    /\ UNCHANGED <<page, cacheCollection, clock, lastOp, store>>

\* Remove: DeleteOne(...) throws
DeleteOneThrows(c, k) ==
    /\ Begin(c)
    /\ ~Answers(c)
    /\ Goto(c, StoreThrows(c), "Remove", k, None, None)
    /\ UNCHANGED <<page, cacheCollection, clock, lastOp, store>>

\* Mutant: Get catches the exception of the touch write and returns the value
\* it read.
ReplaceOneThrows_Fallback(c) ==
    /\ loc[c].pc = "replace"
    /\ ~Answers(c)
    /\ Goto(c, "done", loc[c].op, loc[c].key, loc[c].entry,
            Some(ValueOf(loc[c].entry).Value))
    /\ UNCHANGED <<page, cacheCollection, clock, lastOp, store>>

\* Get, Refresh, Set: ReplaceOne(...) throws
ReplaceOneThrows(c) ==
    /\ loc[c].pc = "replace"
    /\ ~Answers(c)
    /\ Goto(c, StoreThrows(c), loc[c].op, loc[c].key, loc[c].entry, None)
    /\ UNCHANGED <<page, cacheCollection, clock, lastOp, store>>

\* The exception reaches the caller, which is free to call again.
Raise(c) ==
    /\ loc[c].pc \in {"failed", "cancelled"}
    /\ loc' = [loc EXCEPT ![c] = Idle]
    /\ UNCHANGED <<page, cacheCollection, clock, lastOp, store>>

FaultNext ==
    \/ Tick
    \/ StoreDown
    \/ StoreUp
    \/ \E c \in FaultCallers : StartAsync(c)
    \/ \E c \in FaultCallers : Cancel(c)
    \/ \E c \in FaultCallers, k \in FaultKeys : Answers(c) /\ GetFind(c, k)
    \/ \E c \in FaultCallers : GetTouch(c)
    \/ \E c \in FaultCallers : Answers(c) /\ GetReplace(c)
    \/ \E c \in FaultCallers, k \in FaultKeys : Answers(c) /\ RefreshFind(c, k)
    \/ \E c \in FaultCallers : RefreshTouch(c)
    \/ \E c \in FaultCallers : Answers(c) /\ RefreshReplace(c)
    \/ \E c \in FaultCallers, k \in FaultKeys : Answers(c) /\ RemoveDelete(c, k)
    \/ \E c \in FaultCallers, k \in FaultKeys, v \in Values, o \in Options :
          SetNew(c, k, v, o)
    \/ \E c \in FaultCallers : Answers(c) /\ SetReplace(c)
    \/ \E c \in FaultCallers, k \in FaultKeys : FindThrows(c, "Get", k)
    \/ \E c \in FaultCallers, k \in FaultKeys : FindThrows(c, "Refresh", k)
    \/ \E c \in FaultCallers, k \in FaultKeys : DeleteOneThrows(c, k)
    \/ \E c \in FaultCallers : ReplaceOneThrows(c)
    \/ \E c \in FaultCallers : Return(c)
    \/ \E c \in FaultCallers : Raise(c)

FaultSpec == Init /\ [][FaultNext]_vars

---------------------------------------------------------------------------
(* PageSpec: the navigation script of the slide pages (sidebar.js).  A path *)
(* is a sequence of tokens, "/" or a name; a document loads once, its      *)
(* DOMContentLoaded handler runs once, and then clicks are dispatched.     *)

\* sidebarHtmlContent: the href of each link of #nav-list
NavHrefs ==
    {"slide_01.html", "slide_02.html", "slide_03.html", "slide_04.html",
     "slide_05.html", "slide_06.html", "slide_07.html", "slide_08.html",
     "slide_09.html", "slide_10.html", "slide_11.html", "slide_12.html",
     "slide_13.html"}

\* window.location.pathname: it starts with "/".
PathTokens == {"/", "gift"} \cup NavHrefs
Paths ==
    {p \in UNION {[1..n -> PathTokens] : n \in 1..MaxPathLen} : p[1] = "/"}

\* The elements of slide_09.html the script looks up by id.
Boxes == {"hofontsvgbx", "hocmssvgbx"}
CloseButtons == {"close-hofont", "close-hocms"}

\* hofontBox.classList.add('cursor-zoom-in', 'transition', 'duration-300', 'hover:scale-105')
ZoomClasses == {"cursor-zoom-in", "transition", "duration-300", "hover:scale-105"}

\* Mutant: the position of the first occurrence.
LastIndexOf_First(path, ch) ==
    IF \E i \in 1..Len(path) : path[i] = ch
    THEN CHOOSE i \in 1..Len(path) :
            path[i] = ch /\ \A j \in 1..(i - 1) : path[j] # ch
    ELSE 0

\* path.lastIndexOf('/'), counted from 1; 0 when there is none (-1 in the code)
LastIndexOf(path, ch) ==
    IF \E i \in 1..Len(path) : path[i] = ch
    THEN CHOOSE i \in 1..Len(path) :
            path[i] = ch /\ \A j \in (i + 1)..Len(path) : path[j] # ch
    ELSE 0

\* const currentFile = path.substring(path.lastIndexOf('/') + 1)
CurrentFile(path) == SubSeq(path, LastIndexOf(path, "/") + 1, Len(path))

\* The close button of a box lies inside the box: its click bubbles to the box.
BoxOf(el) ==
    IF el \in {"hofontsvgbx", "close-hofont"} THEN "hofontsvgbx" ELSE "hocmssvgbx"
Parent(el) == IF el \in CloseButtons THEN BoxOf(el) ELSE "body"

\* function() { this.classList.add('lightbox-active'); }
OpenHandler(el, classes) ==
    [classes |-> [classes EXCEPT ![el] = @ \cup {"lightbox-active"}],
     stopped |-> FALSE]

\* Mutant: the close handler lets the click bubble.
CloseHandler_Bubbles(el, classes) ==
    [classes |-> [classes EXCEPT ![BoxOf(el)] = @ \ {"lightbox-active"}],
     stopped |-> FALSE]

\* function(event) { event.stopPropagation(); hofontBox.classList.remove('lightbox-active'); }
CloseHandler(el, classes) ==
    [classes |-> [classes EXCEPT ![BoxOf(el)] = @ \ {"lightbox-active"}],
     stopped |-> TRUE]

\* A click event at element el, bubbling to the ancestors until a listener
\* stops it.
RECURSIVE Dispatch(_, _, _)
Dispatch(el, classes, listeners) ==
    IF el = "body" THEN classes
    ELSE LET r == IF el \notin listeners
                  THEN [classes |-> classes, stopped |-> FALSE]
                  ELSE IF el \in Boxes THEN OpenHandler(el, classes)
                  ELSE CloseHandler(el, classes)
         IN IF r.stopped THEN r.classes
            ELSE Dispatch(Parent(el), r.classes, listeners)

\* document.addEventListener('DOMContentLoaded', () => { ... })
DOMContentLoaded(path, hasBoxes) ==
    LET currentFile == CurrentFile(path)
        navItems == {href \in NavHrefs : <<href>> = currentFile}
        lightbox == currentFile = <<"slide_09.html">> /\ hasBoxes
    IN
    /\ ~page.loaded
    /\ page' = [loaded     |-> TRUE,
                path       |-> path,
                hasBoxes   |-> hasBoxes,
                active     |-> navItems,
                scrolledTo |-> navItems,
                classes    |-> [b \in Boxes |-> IF lightbox THEN ZoomClasses ELSE {}],
                listeners  |-> IF lightbox THEN Boxes \cup CloseButtons ELSE {},
                lastClick  |-> [b \in Boxes |-> "none"],
                clicked    |-> "none",
                n          |-> 0]
    /\ UNCHANGED <<cacheCollection, clock, lastOp, loc, store>>

\* The user clicks element el of a page that has the boxes.
Click(el) ==
    /\ page.loaded
    /\ page.hasBoxes
    /\ page' = [page EXCEPT
                  !.classes = Dispatch(el, page.classes, page.listeners),
                  !.lastClick[BoxOf(el)] = IF el \in Boxes THEN "box" ELSE "close",
                  !.clicked = el,
                  !.n = 1 - @]
    /\ UNCHANGED <<cacheCollection, clock, lastOp, loc, store>>

\* A click on a box outside its close button, and one on its close button.
ClickBox(b) == Click(b)
ClickClose(b) == Click(IF b = "hofontsvgbx" THEN "close-hofont" ELSE "close-hocms")

PageNext ==
    \/ /\ ~page.loaded
       /\ \E path \in Paths, hasBoxes \in BOOLEAN : DOMContentLoaded(path, hasBoxes)
    \/ \E b \in Boxes : ClickBox(b)
    \/ \E b \in Boxes : ClickClose(b)

PageSpec == Init /\ [][PageNext]_vars

---------------------------------------------------------------------------
(* Claims checked under Spec *)

\* C1: for every key k and value v, when Set(k, v, {}) is the last call on k and
\* the next call on k is Get(k), that Get returns exactly v.
C1_SetThenGet ==
    [][\A k \in Keys :
          (lastOp[k].op = "Set" /\ lastOp[k].options = NoOptions
              /\ Called(k) /\ lastOp'[k].op = "Get")
          => lastOp'[k].result = lastOp[k].value]_vars

\* A Get has returned the one-byte value of an entry stored without expiration.
C1_Witness ==
    \E k \in Keys :
        /\ lastOp[k].op = "Get"
        /\ lastOp[k].result = Some(<<1>>)
        /\ \E e \in Stored(k) :
              ~HasValue(e.AbsoluteExpiration) /\ ~HasValue(e.SlidingExpiration)

\* C2: a key on which no call was made yet, or whose last call was Remove, has no
\* document; and a Get on a key without document returns Not-found (null) and
\* leaves the whole collection as it was, so it creates no document for the key.
C2_GetAbsent ==
    [][\A k \in Keys :
          /\ lastOp[k].op \in {"None", "Remove"} => Stored(k) = {}
          /\ (Stored(k) = {} /\ Called(k) /\ lastOp'[k].op = "Get")
             => /\ lastOp'[k].result = None
                /\ cacheCollection' = cacheCollection]_vars

\* A Get returned Not-found for a key without document while another key has one.
C2_Witness ==
    \E k \in Keys :
        /\ lastOp[k].op = "Get"
        /\ lastOp[k].result = None
        /\ lastOp[k].n = 1
        /\ Stored(k) = {}
        /\ cacheCollection # {}

\* C3: Set is a full overwrite.  After a call Set(k, v2, o2), whatever was stored
\* for k before, the collection holds for k exactly one document, with Value v2,
\* AbsoluteExpiration the UTC time of o2's (null when o2 has none),
\* SlidingExpiration o2's, and LastAccessTime the time of the call; and a Get(k)
\* that follows a Set(k, v2, o2) returns v2.
C3_SetOverwrites ==
    [][\A k \in Keys :
          /\ (Called(k) /\ lastOp'[k].op = "Set")
             => StoredIn(cacheCollection', k) =
                   {[Id                 |-> k,
                     Value              |-> ValueOf(lastOp'[k].value),
                     AbsoluteExpiration |->
                         IF lastOp'[k].options.AbsoluteExpiration = None
                         THEN None
                         ELSE Some(ValueOf(lastOp'[k].options.AbsoluteExpiration).dt
                                   - ValueOf(lastOp'[k].options.AbsoluteExpiration).off),
                     SlidingExpiration  |-> lastOp'[k].options.SlidingExpiration,
                     LastAccessTime     |-> clock]}
          /\ (lastOp[k].op = "Set" /\ Called(k) /\ lastOp'[k].op = "Get")
             => lastOp'[k].result = lastOp[k].value]_vars

\* A Set with an absolute expiration and no sliding one was the second (or a
\* later even-numbered) call on its key, at a time after the first clock tick.
C3_Witness ==
    \E k \in Keys :
        /\ lastOp[k].op = "Set"
        /\ lastOp[k].n = 0
        /\ HasValue(lastOp[k].options.AbsoluteExpiration)
        /\ ~HasValue(lastOp[k].options.SlidingExpiration)
        /\ \E e \in Stored(k) : e.LastAccessTime > 0 /\ e.Value = <<1>>

\* C4: Remove(k) leaves no document for k and leaves every other key's document
\* as it was; on a key without document it leaves the whole collection unchanged,
\* and so does a Remove(k) that follows a Remove(k).
C4_RemoveIdempotent ==
    [][\A k \in Keys :
          (Called(k) /\ lastOp'[k].op = "Remove")
          => /\ StoredIn(cacheCollection', k) = {}
             /\ \A j \in Keys \ {k} :
                   StoredIn(cacheCollection', j) = Stored(j)
             /\ Stored(k) = {} => cacheCollection' = cacheCollection
             /\ lastOp[k].op = "Remove" => cacheCollection' = cacheCollection]_vars

\* A Remove was the second (or a later even-numbered) call on a key, and the
\* other key still has its document.
C4_Witness ==
    \E k \in Keys :
        /\ lastOp[k].op = "Remove"
        /\ lastOp[k].n = 0
        /\ Stored(k) = {}
        /\ cacheCollection # {}

\* C5: a Get(k) on an entry stored with a sliding expiration returns the entry's
\* Value and leaves for k exactly that entry with LastAccessTime set to the time
\* of the call: Value, AbsoluteExpiration and SlidingExpiration are unchanged.
C5_SlidingTouch ==
    [][\A k \in Keys : \A e \in Stored(k) :
          (HasValue(e.SlidingExpiration) /\ Called(k) /\ lastOp'[k].op = "Get")
          => /\ lastOp'[k].result = Some(e.Value)
             /\ StoredIn(cacheCollection', k) =
                   {[Id                 |-> k,
                     Value              |-> e.Value,
                     AbsoluteExpiration |-> e.AbsoluteExpiration,
                     SlidingExpiration  |-> e.SlidingExpiration,
                     LastAccessTime     |-> clock]}]_vars

\* A Get returned the value of a sliding entry whose LastAccessTime is the
\* present time, after the clock has advanced.
C5_Witness ==
    \E k \in Keys : \E e \in Stored(k) :
        /\ lastOp[k].op = "Get"
        /\ lastOp[k].wrote
        /\ lastOp[k].result = Some(<<1>>)
        /\ HasValue(e.SlidingExpiration)
        /\ clock = MaxTime * TickMinutes
        /\ e.LastAccessTime = clock

\* C6: a Get(k) or Refresh(k) on an entry stored without sliding expiration
\* (with an absolute one or with none) issues no write to the store and leaves
\* the collection, the entry's LastAccessTime included, exactly as it was.
C6_NoTouchWithoutSliding ==
    [][\A k \in Keys : \A e \in Stored(k) :
          (~HasValue(e.SlidingExpiration) /\ Called(k)
              /\ lastOp'[k].op \in {"Get", "Refresh"})
          => /\ ~lastOp'[k].wrote
             /\ cacheCollection' = cacheCollection]_vars

\* A Get or Refresh was made on an absolute-only entry whose LastAccessTime is
\* older than the present time.
C6_Witness ==
    \E k \in Keys : \E e \in Stored(k) :
        /\ lastOp[k].op \in {"Get", "Refresh"}
        /\ ~HasValue(e.SlidingExpiration)
        /\ HasValue(e.AbsoluteExpiration)
        /\ e.LastAccessTime < clock

\* C7: Refresh(k) on an entry with a sliding expiration stores that entry with
\* LastAccessTime set to the time of the call and nothing else changed; in every
\* other case (no document for k, or no sliding expiration) it issues no write
\* and leaves the collection unchanged.  It never creates a document for a key
\* that had none, never changes a Value, and returns nothing.
C7_Refresh ==
    [][\A k \in Keys :
          (Called(k) /\ lastOp'[k].op = "Refresh")
          => /\ \A e \in Stored(k) :
                   IF HasValue(e.SlidingExpiration)
                   THEN /\ lastOp'[k].wrote
                        /\ cacheCollection' =
                              (cacheCollection \ {e})
                                 \cup {[e EXCEPT !.LastAccessTime = clock]}
                   ELSE /\ ~lastOp'[k].wrote
                        /\ cacheCollection' = cacheCollection
             /\ Stored(k) = {} => ~lastOp'[k].wrote /\ cacheCollection' = cacheCollection
             /\ \A e \in StoredIn(cacheCollection', k) :
                   \E d \in Stored(k) : d.Value = e.Value
             /\ lastOp'[k].result = None]_vars

\* A Refresh has touched a sliding entry after the clock advanced, while the key
\* next to it, also refreshed last, has no document.
C7_Witness ==
    \E k \in Keys : \E e \in Stored(k) :
        /\ lastOp[k].op = "Refresh"
        /\ lastOp[k].wrote
        /\ HasValue(e.SlidingExpiration)
        /\ e.LastAccessTime = clock
        /\ clock > 0
        /\ \E j \in Keys \ {k} :
              lastOp[j].op = "Refresh" /\ ~lastOp[j].wrote /\ Stored(j) = {}

\* The time after which an entry counts as expired, None when it never does:
\* its AbsoluteExpiration if it has one, else LastAccessTime + SlidingExpiration.
Deadline(e) ==
    IF e.AbsoluteExpiration # None THEN e.AbsoluteExpiration
    ELSE IF e.SlidingExpiration # None
         THEN Some(e.LastAccessTime + ValueOf(e.SlidingExpiration))
         ELSE None

Expired(e) == Deadline(e) # None /\ ValueOf(Deadline(e)) < clock

\* C12: Get makes no expiration check and the adapter expires nothing.  A Get on
\* a key that has a document returns that document's Value and leaves a document
\* for the key, also when the document's deadline is already past; and a call
\* that is not Remove never leaves a key that had a document without one.
C12_NoExpiration ==
    [][\A k \in Keys : \A e \in Stored(k) :
          Called(k)
          => /\ lastOp'[k].op = "Get"
                => /\ lastOp'[k].result = Some(e.Value)
                   /\ StoredIn(cacheCollection', k) # {}
             /\ lastOp'[k].op # "Remove" => StoredIn(cacheCollection', k) # {}]_vars

\* A Get has returned the value of an entry whose absolute expiration is past,
\* while the other key still holds an entry, last touched by a Refresh, whose
\* sliding deadline is past.
C12_Witness ==
    \E k \in Keys : \E e \in Stored(k) :
        /\ lastOp[k].op = "Get"
        /\ lastOp[k].result = Some(e.Value)
        /\ e.AbsoluteExpiration # None
        /\ Expired(e)
        /\ \E j \in Keys \ {k} : \E f \in Stored(j) :
              /\ lastOp[j].op = "Refresh"
              /\ f.AbsoluteExpiration = None
              /\ Expired(f)

\* C15: the blocking and the asynchronous variant of each operation are
\* equivalent when no cancellation occurs.  From any store state, with the same
\* arguments and at the same time, a step is a call of Get exactly when it is a
\* call of GetAsync, and likewise for Set/SetAsync, Remove/RemoveAsync and
\* Refresh/RefreshAsync: the two leave the same collection, return the same
\* result and agree on whether a write followed the read.
C15_AsyncEquivalent ==
    [][\A k \in Keys :
          /\ Get(k) <=> GetAsync(k)
          /\ Refresh(k) <=> RefreshAsync(k)
          /\ Remove(k) <=> RemoveAsync(k)
          /\ \A v \in Values, o \in Options : Set(k, v, o) <=> SetAsync(k, v, o)]_vars

\* A Get with its touch write has completed on an entry stored with both
\* expirations, and on the other key, which has no document, a Refresh without
\* write was the second (or a later even-numbered) call.
C15_Witness ==
    \E k \in Keys : \E j \in Keys \ {k} : \E e \in Stored(k) :
        /\ lastOp[k].op = "Get"
        /\ lastOp[k].wrote
        /\ lastOp[k].result = Some(e.Value)
        /\ e.AbsoluteExpiration # None
        /\ e.LastAccessTime = clock
        /\ clock > 0
        /\ lastOp[j].op = "Refresh"
        /\ ~lastOp[j].wrote
        /\ lastOp[j].n = 0
        /\ Stored(j) = {}

\* C16: Not-found is a normal result distinct from an empty value.  The last
\* call on a key being a Get, its result is Not-found (null) exactly when the
\* key has no document; so a Get that follows Set(k, empty byte sequence, {})
\* returns the empty value and not Not-found, and a Get on a key without
\* document returns Not-found as an ordinary result.
C16_NotFoundDistinct ==
    [][\A k \in Keys :
          (Called(k) /\ lastOp'[k].op = "Get")
          => /\ lastOp'[k].result = None <=> Stored(k) = {}
             /\ (lastOp[k].op = "Set" /\ lastOp[k].value = Some(<<>>)
                   /\ lastOp[k].options = NoOptions)
                => /\ lastOp'[k].result = Some(<<>>)
                   /\ lastOp'[k].result # None]_vars

\* One key's Get has returned the empty value of its document, stored without
\* expiration, and the other key's Get has returned Not-found.
C16_Witness ==
    \E k \in Keys : \E j \in Keys \ {k} : \E e \in Stored(k) :
        /\ lastOp[k].op = "Get"
        /\ lastOp[k].result = Some(<<>>)
        /\ e.Value = <<>>
        /\ e.AbsoluteExpiration = None
        /\ e.SlidingExpiration = None
        /\ lastOp[j].op = "Get"
        /\ lastOp[j].result = None
        /\ Stored(j) = {}

---------------------------------------------------------------------------
(* Claims checked under ConcSpec *)

\* C8: when two callers have each completed a Set on the same key, with
\* different values, the collection holds for that key exactly one document and
\* it is wholly the entry one of the two Sets built (its Value, expirations and
\* LastAccessTime together), so a Get of the key returns one of the two values.
C8_ConcurrentSets ==
    \A c \in Callers : \A d \in Callers \ {c} :
        (At(c, "done", "Set") /\ At(d, "done", "Set")
            /\ loc[c].key = loc[d].key
            /\ ValueOf(loc[c].entry).Value # ValueOf(loc[d].entry).Value)
        => Stored(loc[c].key) \in {{ValueOf(loc[c].entry)}, {ValueOf(loc[d].entry)}}

\* Two Sets on one key overlapped: the entry stored is the one built first (it
\* has the older LastAccessTime), so it was written last; the two differ in
\* value and in sliding expiration.
C8_Witness ==
    \E c \in Callers : \E d \in Callers \ {c} :
        /\ At(c, "done", "Set") /\ At(d, "done", "Set")
        /\ loc[c].key = loc[d].key
        /\ ValueOf(loc[c].entry).Value # ValueOf(loc[d].entry).Value
        /\ ValueOf(loc[c].entry).SlidingExpiration
              # ValueOf(loc[d].entry).SlidingExpiration
        /\ ValueOf(loc[c].entry).LastAccessTime < ValueOf(loc[d].entry).LastAccessTime
        /\ Stored(loc[c].key) = {ValueOf(loc[c].entry)}

\* C9: the touch write of a Get or Refresh never changes the stored Value.  When
\* a caller is about to write its touch and the document now stored is the entry
\* of a Set that another caller completed after the touching call read (the
\* stored entry is that Set's and its Value is not the one read), then after
\* the touch write the document still holds the Set's Value.
C9_TouchKeepsValue ==
    [][\A c \in Callers : \A d \in Callers \ {c} :
          (loc[c].pc = "replace" /\ loc[c].op \in {"Get", "Refresh"}
              /\ At(d, "done", "Set") /\ loc[d].key = loc[c].key
              /\ Stored(loc[c].key) = {ValueOf(loc[d].entry)}
              /\ ValueOf(loc[c].entry).Value # ValueOf(loc[d].entry).Value
              /\ loc'[c].pc = "done")
          => /\ StoredIn(cacheCollection', loc[c].key) # {}
             /\ \A e \in StoredIn(cacheCollection', loc[c].key) :
                   e.Value = ValueOf(loc[d].entry).Value]_vars

\* C10: no step replaces the LastAccessTime stored for a key by an earlier one.
C10_LastAccessMonotone ==
    [][\A k \in Keys : \A e \in Stored(k) :
          \A f \in StoredIn(cacheCollection', k) :
              f.LastAccessTime >= e.LastAccessTime]_vars

\* C17: in every reachable state, under any interleaving of the store calls of
\* Get, Set, Remove and Refresh by the callers, the collection holds at most one
\* document per Id.
C17_UniqueId ==
    \A k \in Keys : Cardinality(Stored(k)) <= 1

\* Two Sets on one key have both written, the second over the first, with
\* entries built at different times and with different absolute expirations:
\* the key has one document.
C17_Witness ==
    \E c \in Callers : \E d \in Callers \ {c} :
        /\ At(c, "done", "Set") /\ At(d, "done", "Set")
        /\ loc[c].key = loc[d].key
        /\ ValueOf(loc[c].entry).AbsoluteExpiration
              # ValueOf(loc[d].entry).AbsoluteExpiration
        /\ ValueOf(loc[c].entry).LastAccessTime < ValueOf(loc[d].entry).LastAccessTime
        /\ Stored(loc[c].key) = {ValueOf(loc[d].entry)}
        /\ Cardinality(cacheCollection) = 1

\* C18: a touch never creates a document.  The touch write of a Get or Refresh
\* on a key that has no document any more (a Remove completed after the read)
\* leaves the key without document; only the write of a Set gives a document to
\* a key that has none; and a Get that reads a key without document returns
\* Not-found.
C18_TouchNeverCreates ==
    [][\A k \in Keys :
          /\ \A c \in Callers :
                (loc[c].pc = "replace" /\ loc[c].op \in {"Get", "Refresh"}
                    /\ loc[c].key = k /\ loc'[c].pc = "done" /\ Stored(k) = {})
                => StoredIn(cacheCollection', k) = {}
          /\ (Stored(k) = {} /\ StoredIn(cacheCollection', k) # {})
             => \E c \in Callers :
                   /\ loc[c].pc = "replace" /\ loc[c].op = "Set" /\ loc[c].key = k
                   /\ loc'[c].pc = "done"
          /\ \A c \in Callers :
                (loc[c].pc = "idle" /\ loc'[c].op = "Get" /\ loc'[c].key = k
                    /\ Stored(k) = {})
                => loc'[c].pc = "done" /\ loc'[c].result = None]_vars

\* A Get that read and touched a sliding entry has completed, the Remove of the
\* other caller has completed, and the key has no document.
C18_Witness ==
    \E c \in Callers : \E d \in Callers \ {c} :
        /\ At(c, "done", "Get")
        /\ loc[c].result = Some(<<1>>)
        /\ ValueOf(loc[c].entry).LastAccessTime = clock
        /\ clock > 0
        /\ At(d, "done", "Remove")
        /\ loc[d].key = loc[c].key
        /\ Stored(loc[c].key) = {}

---------------------------------------------------------------------------
(* Claims checked under KeysSpec *)

\* C11: operations on different keys are independent.  Every step of a call on
\* key k (its read, its touch write, its upsert, its delete), interleaved in any
\* way with the calls on the other key, leaves the documents of every key other
\* than k as they were; and the result a Get(k) completes with depends on the
\* document of k only: it is the Value of the document stored for k, and
\* Not-found when k has no document, whatever the other key holds.
C11_KeyIndependence ==
    [][\A c \in Callers :
          loc'[c] # loc[c]
          => /\ \A j \in Keys \ {KeyOf(c)} :
                   StoredIn(cacheCollection', j) = Stored(j)
             /\ (loc'[c].pc = "done" /\ loc'[c].op = "Get")
                => loc'[c].result =
                      IF StoredIn(cacheCollection', KeyOf(c)) = {}
                      THEN None
                      ELSE Some((CHOOSE e \in StoredIn(cacheCollection', KeyOf(c)) :
                                    TRUE).Value)]_vars

\* One caller has completed a Get with Not-found on its key, which has no
\* document, while the other caller is between the read and the touch write of
\* a Get on the other key, which holds a document with a one-byte Value.
C11_Witness ==
    \E c \in Callers : \E d \in Callers \ {c} :
        /\ loc[c].pc = "done"
        /\ loc[c].op = "Get"
        /\ loc[c].result = None
        /\ Stored(KeyOf(c)) = {}
        /\ loc[d].pc = "replace"
        /\ loc[d].op = "Get"
        /\ \E f \in Stored(KeyOf(d)) : f.Value = <<1>>

---------------------------------------------------------------------------
(* Claims checked under FaultSpec *)

\* The step of caller c is one of its store calls: the Find of a Get or a
\* Refresh, the DeleteOne of a Remove, or the ReplaceOne of a Get, Refresh or Set.
IsStoreCall(c) ==
    \/ /\ loc[c].pc = "idle"
       /\ loc'[c].pc # "idle"
       /\ loc'[c].op \in {"Get", "Refresh", "Remove"}
    \/ /\ loc[c].pc = "replace"
       /\ loc'[c].pc # "replace"

\* C13: a store failure propagates with no retry and no fallback.  A store call
\* made while the server is unreachable ends the operation in failure, with no
\* value returned and the collection as it was; an operation that has failed
\* makes no further store call: nothing changes in the collection until the
\* failure has reached the caller.  In particular a Get that has read a
\* sliding-expiration entry and whose touch write fails ends in failure instead
\* of returning the value it read, and the stored document is unchanged.
C13_FailurePropagates ==
    [][\A c \in FaultCallers :
          /\ (IsStoreCall(c) /\ store = "down" /\ loc[c].token # "cancelled")
             => /\ loc'[c].pc = "failed"
                /\ loc'[c].result = None
                /\ cacheCollection' = cacheCollection
          /\ loc[c].pc = "failed"
             => /\ cacheCollection' = cacheCollection
                /\ loc'[c].pc \in {"failed", "idle"}]_vars

\* A Get has failed at its touch write: it holds the entry it read, touched at
\* the present time, while the stored document still has the older
\* LastAccessTime, and the Get has no value to return.
C13_Witness ==
    \E c \in FaultCallers : \E e \in Stored(loc[c].key) :
        /\ loc[c].pc = "failed"
        /\ loc[c].op = "Get"
        /\ loc[c].token = "none"
        /\ loc[c].entry # None
        /\ ValueOf(loc[c].entry).LastAccessTime = clock
        /\ e.LastAccessTime < clock
        /\ e.Value = <<1>>
        /\ loc[c].result = None

\* C14: a cancelled asynchronous call ends in cancellation, an outcome that is
\* neither the failure of the store nor a normal return, also while the server
\* is unreachable.  The store call that observes the cancelled token writes
\* nothing and returns nothing, and a call that has ended in cancellation makes
\* no further store call; so a GetAsync or RefreshAsync cancelled after its read
\* and before its touch write leaves the stored document unchanged.  Only a call
\* whose token was cancelled ends in cancellation.
C14_Cancellation ==
    [][\A c \in FaultCallers :
          /\ (IsStoreCall(c) /\ loc[c].token = "cancelled")
             => /\ loc'[c].pc = "cancelled"
                /\ loc'[c].result = None
                /\ cacheCollection' = cacheCollection
          /\ loc[c].pc = "cancelled"
             => /\ cacheCollection' = cacheCollection
                /\ loc'[c].pc \in {"cancelled", "idle"}
          /\ loc'[c].pc = "cancelled" => loc'[c].token = "cancelled"]_vars

\* A RefreshAsync was cancelled after its read and ended in cancellation at its
\* touch write, while the server is reachable: it holds the entry touched at
\* the present time and the stored document still has the older LastAccessTime.
C14_Witness ==
    \E c \in FaultCallers : \E e \in Stored(loc[c].key) :
        /\ loc[c].pc = "cancelled"
        /\ loc[c].op = "Refresh"
        /\ store = "up"
        /\ loc[c].entry # None
        /\ ValueOf(loc[c].entry).LastAccessTime = clock
        /\ e.LastAccessTime < clock

---------------------------------------------------------------------------
(* Claims checked under PageSpec *)

\* The page is slide 9 with its two boxes: the path ends in "/slide_09.html".
OnSlide9(pg) ==
    /\ pg.loaded
    /\ pg.hasBoxes
    /\ Len(pg.path) >= 2
    /\ pg.path[Len(pg.path)] = "slide_09.html"
    /\ pg.path[Len(pg.path) - 1] = "/"

\* A box and its close button.
ElementsOf(b) ==
    IF b = "hofontsvgbx" THEN {"hofontsvgbx", "close-hofont"}
    ELSE {"hocmssvgbx", "close-hocms"}

\* C19: the lightbox of slide 9.  After any sequence of clicks each of the two
\* boxes carries 'lightbox-active' exactly when the last click on it or on its
\* close button was on the box outside the close button; a click on the close
\* button leaves its box without 'lightbox-active' (the click does not bubble
\* to the box and reopen it); and a click on one box or on its close button
\* leaves the classes of the other box as they were.
C19_Lightbox ==
    [][OnSlide9(page')
       => \A b \in Boxes :
             /\ ("lightbox-active" \in page'.classes[b]) <=> (page'.lastClick[b] = "box")
             /\ (page'.n # page.n /\ page'.clicked \in ElementsOf(b) \ {b})
                => "lightbox-active" \notin page'.classes[b]
             /\ (page'.n # page.n /\ page'.clicked \notin ElementsOf(b))
                => page'.classes[b] = page.classes[b]]_vars

\* On slide 9 one box was opened and then closed with its close button, which
\* was the last click, and the other box, opened before, is still open.
C19_Witness ==
    /\ OnSlide9(page)
    /\ page.clicked = "close-hofont"
    /\ page.lastClick["hofontsvgbx"] = "close"
    /\ "lightbox-active" \notin page.classes["hofontsvgbx"]
    /\ "cursor-zoom-in" \in page.classes["hofontsvgbx"]
    /\ page.lastClick["hocmssvgbx"] = "box"
    /\ "lightbox-active" \in page.classes["hocmssvgbx"]
    /\ Len(page.path) = MaxPathLen

\* C20: after the DOMContentLoaded handler has run, a navigation link carries
\* 'active' if and only if its href is the file name of the page, the part of
\* the path after the last "/"; so at most one of the 13 links is active, and
\* none is when the path ends in "/" or names a file that is not in the list.
C20_ActiveLink ==
    page.loaded
    => LET p == page.path
           last == Len(page.path)
       IN /\ \A href \in NavHrefs :
                href \in page.active
                <=> (last >= 2 /\ p[last] = href /\ p[last - 1] = "/")
          /\ Cardinality(page.active) <= 1
          /\ Cardinality(NavHrefs) = 13
          /\ p[last] = "/" => page.active = {}
          /\ p[last] \notin NavHrefs => page.active = {}
          /\ (last >= 2 /\ p[last - 1] # "/") => page.active = {}

\* The page /gift/slide_13.html has loaded: its link, the last of the list, is
\* the active one and was scrolled into view.
C20_Witness ==
    /\ page.loaded
    /\ page.path = <<"/", "gift", "/", "slide_13.html">>
    /\ page.active = {"slide_13.html"}
    /\ page.scrolledTo = {"slide_13.html"}

=============================================================================
